---- MODULE Spec2Model ----
(***************************************************************************)
(* BlockHeader of bitcore-lib-doge (lib/block/blockheader.js): the header  *)
(* object with its lazily cached hash, its constructors (from a Buffer or  *)
(* from a field map), its serialisation, the compact-bits target, the      *)
(* proof-of-work test and the AuxPoW parser.                               *)
(*                                                                         *)
(* Buffers are sequences of bytes (0..255); a BufferReader is a buffer     *)
(* with a 0-based position.  An operation that can throw yields a record   *)
(* with an err field ("none" when it returned).  The collaborators that    *)
(* blockheader.js requires (BufferReader, BufferWriter, BufferUtil, BN,    *)
(* Hash, AuxPow) are modelled by their interface.                          *)
(***************************************************************************)
EXTENDS Integers, Sequences, FiniteSets, TLC

\* ------------------------------------------------------------------------
\* Program constants
\* ------------------------------------------------------------------------
GENESIS_BITS == 504365040      \* 0x1e0ffff0
REGTEST_BITS == 545259519      \* 0x207fffff
AUXPOW_BIT == 256              \* 1 << 8
HASH_SIZE == 32
HEADER_SIZE == 80

\* ------------------------------------------------------------------------
\* Bounds of the model
\* ------------------------------------------------------------------------
MaxExponent == 6    \* exponent bytes of the bits given to getTargetDifficulty
MaxCut == 2         \* truncated payloads per well-formed payload family

\* ------------------------------------------------------------------------
\* Bytes, buffers, hex strings
\* ------------------------------------------------------------------------
Undefined == [kind |-> "undefined"]

Ok(v, p) == [err |-> "none", val |-> v, pos |-> p]

Fail(e, p) == [err |-> e, val |-> <<>>, pos |-> p]

\* a sequence given as a function, as a sequence
AsSeq(f) == f \o <<>>

\* BufferUtil.reverse
reverse(buf) == AsSeq([i \in 1..Len(buf) |-> buf[Len(buf) + 1 - i]])

HexDigits == <<"0", "1", "2", "3", "4", "5", "6", "7",
               "8", "9", "a", "b", "c", "d", "e", "f">>

HexVal(c) == (CHOOSE v \in 1..16 : HexDigits[v] = c) - 1

\* buf.toString('hex'): two digits per byte, high nibble first
toHex(buf) ==
  AsSeq([i \in 1..(2 * Len(buf)) |->
           IF i % 2 = 1 THEN HexDigits[(buf[(i + 1) \div 2] \div 16) + 1]
                        ELSE HexDigits[(buf[i \div 2] % 16) + 1]])

\* Buffer.from(str, 'hex'); an odd trailing digit is dropped
fromHex(str) ==
  AsSeq([i \in 1..(Len(str) \div 2) |->
           16 * HexVal(str[2 * i - 1]) + HexVal(str[2 * i])])

\* ------------------------------------------------------------------------
\* BufferWriter
\* ------------------------------------------------------------------------
\* two's complement, little endian
writeInt32LE(n) ==
  <<n % 256, (n \div 256) % 256, (n \div 65536) % 256, (n \div 16777216) % 256>>

writeUInt32LE(n) ==
  <<n % 256, (n \div 256) % 256, (n \div 65536) % 256, (n \div 16777216) % 256>>

writeVarintNum(n) ==
  IF n < 253 THEN <<n>>
  ELSE IF n < 65536 THEN <<253, n % 256, n \div 256>>
  ELSE <<254>> \o writeUInt32LE(n)

\* ------------------------------------------------------------------------
\* BufferReader: every read past the end of the buffer throws
\* ------------------------------------------------------------------------
read(buf, pos, len) ==
  IF pos + len > Len(buf) THEN Fail("RangeError", pos)
  ELSE Ok(SubSeq(buf, pos + 1, pos + len), pos + len)

readReverse(buf, pos, len) ==
  IF pos + len > Len(buf) THEN Fail("RangeError", pos)
  ELSE Ok(reverse(SubSeq(buf, pos + 1, pos + len)), pos + len)

readUInt8(buf, pos) ==
  IF pos + 1 > Len(buf) THEN Fail("RangeError", pos)
  ELSE Ok(buf[pos + 1], pos + 1)

readUInt16LE(buf, pos) ==
  IF pos + 2 > Len(buf) THEN Fail("RangeError", pos)
  ELSE Ok(buf[pos + 1] + 256 * buf[pos + 2], pos + 2)

readUInt16BE(buf, pos) ==
  IF pos + 2 > Len(buf) THEN Fail("RangeError", pos)
  ELSE Ok(256 * buf[pos + 1] + buf[pos + 2], pos + 2)

readUInt32LE(buf, pos) ==
  IF pos + 4 > Len(buf) THEN Fail("RangeError", pos)
  ELSE Ok(buf[pos + 1] + 256 * buf[pos + 2] + 65536 * buf[pos + 3]
          + 16777216 * buf[pos + 4], pos + 4)

readInt32LE(buf, pos) ==
  IF pos + 4 > Len(buf) THEN Fail("RangeError", pos)
  ELSE Ok(buf[pos + 1] + 256 * buf[pos + 2] + 65536 * buf[pos + 3]
          + 16777216 * (IF buf[pos + 4] >= 128 THEN buf[pos + 4] - 256
                        ELSE buf[pos + 4]), pos + 4)

readVarintNum(buf, pos) ==
  LET first == readUInt8(buf, pos) IN
  IF first.err # "none" THEN first
  ELSE IF first.val = 253 THEN readUInt16LE(buf, first.pos)
  ELSE IF first.val = 254 THEN readUInt32LE(buf, first.pos)
  ELSE IF first.val = 255 THEN
    LET lo == readUInt32LE(buf, first.pos)
        hi == readUInt32LE(buf, first.pos + 4) IN
    IF lo.err # "none" \/ hi.err # "none" THEN Fail("RangeError", pos)
    ELSE IF hi.val # 0 THEN Fail("Error", pos)
    ELSE Ok(lo.val, hi.pos)
  ELSE first

\* ------------------------------------------------------------------------
\* Hash: stand-ins for the digest primitives (32 bytes out, every input
\* byte and its place count)
\* ------------------------------------------------------------------------
Modulus == 65521

\* the bytes lo..hi of buf, each weighted by its place
RECURSIVE Absorb(_, _, _)
Absorb(buf, lo, hi) ==
  IF lo > hi THEN 0
  ELSE IF lo = hi THEN ((buf[lo] + 1) * (((lo * lo * 31 + lo * 7 + 3) % 251) + 1)) % Modulus
  ELSE (Absorb(buf, lo, (lo + hi) \div 2) + Absorb(buf, (lo + hi) \div 2 + 1, hi)) % Modulus

Squeeze(acc) ==
  AsSeq([i \in 1..HASH_SIZE |->
           (acc * (i + 2) + (acc \div 256) * (2 * i + 1) + i) % 256])

sha256sha256(buf) == Squeeze((Absorb(buf, 1, Len(buf)) + 7 * Len(buf) + 1) % Modulus)

scrypt(buf) == Squeeze((3 * Absorb(buf, 1, Len(buf)) + 11 * Len(buf) + 4099) % Modulus)

\* ------------------------------------------------------------------------
\* BN: unsigned big numbers as base-256 digits, least significant first,
\* without high zero digits
\* ------------------------------------------------------------------------
RECURSIVE BNStrip(_)
BNStrip(d) ==
  IF Len(d) > 0 /\ d[Len(d)] = 0 THEN BNStrip(SubSeq(d, 1, Len(d) - 1)) ELSE d

\* new BN(number)
BNFromNumber(n) == BNStrip(writeUInt32LE(n))

\* new BN(buffer): big endian
BNFromBuffer(buf) == BNStrip(reverse(buf))

\* a.mul(new BN(2))
BNMul2(a) ==
  LET n == Len(a)
      top == IF n > 0 /\ a[n] >= 128 THEN 1 ELSE 0
  IN AsSeq([i \in 1..(n + top) |->
              (IF i <= n THEN (2 * a[i]) % 256 ELSE 0)
              + (IF i > 1 /\ a[i - 1] >= 128 THEN 1 ELSE 0)])

RECURSIVE BNCmpFrom(_, _, _)
BNCmpFrom(a, b, i) ==
  IF i = 0 THEN 0
  ELSE IF a[i] > b[i] THEN 1
  ELSE IF a[i] < b[i] THEN -1
  ELSE BNCmpFrom(a, b, i - 1)

\* a.cmp(b)
BNCmp(a, b) ==
  IF Len(a) > Len(b) THEN 1
  ELSE IF Len(a) < Len(b) THEN -1
  ELSE BNCmpFrom(a, b, Len(a))

\* ------------------------------------------------------------------------
\* BlockHeader: object, getters, serialisation
\* ------------------------------------------------------------------------
Null == [kind |-> "null"]

\* the AuxPow built for a header whose version lacks the AuxPoW bit
EmptyAuxPow == [kind |-> "empty"]

RECURSIVE Flatten(_)
Flatten(ss) == IF Len(ss) = 0 THEN <<>> ELSE Head(ss) \o Flatten(Tail(ss))

\* Boolean(this.version & (1 << 8)), on the two's complement of version
isAuxPow(h) == (h.version % (2 * AUXPOW_BIT)) \div AUXPOW_BIT = 1

\* the auxpow getter
auxpow(h) == IF isAuxPow(h) THEN h._auxpow ELSE Null

\* the six writes of toBufferWriter
writeFixedFields(h) ==
  writeInt32LE(h.version) \o h.prevHash \o h.merkleRoot
  \o writeUInt32LE(h.time) \o writeUInt32LE(h.bits) \o writeUInt32LE(h.nonce)

\* AuxPow.prototype.toBufferWriter: the structural inverse of the decode
AuxPowTxInToBuffer(in) ==
  in.prevOutput.hash \o in.prevOutput.index \o writeVarintNum(Len(in.script))
  \o in.script \o writeUInt32LE(in.sequence)

AuxPowTxOutToBuffer(out) ==
  out.value \o writeVarintNum(Len(out.script)) \o out.script

AuxPowWitnessToBuffer(stack) ==
  writeVarintNum(Len(stack))
  \o Flatten([j \in 1..Len(stack) |-> writeVarintNum(Len(stack[j])) \o stack[j]])

AuxPowTxnToBuffer(tx) ==
  writeInt32LE(tx.version)
  \o (IF tx.flag # 0 THEN <<tx.flag \div 256, tx.flag % 256>> ELSE <<>>)
  \o writeVarintNum(Len(tx.txIn))
  \o Flatten([i \in 1..Len(tx.txIn) |-> AuxPowTxInToBuffer(tx.txIn[i])])
  \o writeVarintNum(Len(tx.txOut))
  \o Flatten([i \in 1..Len(tx.txOut) |-> AuxPowTxOutToBuffer(tx.txOut[i])])
  \o (IF tx.flag # 0
      THEN Flatten([i \in 1..Len(tx.txWitnesses) |->
                      AuxPowWitnessToBuffer(tx.txWitnesses[i])])
      ELSE <<>>)
  \o writeUInt32LE(tx.lockTime)

AuxPowBranchToBuffer(b) ==
  writeVarintNum(Len(b.branchHashes))
  \o Flatten([j \in 1..Len(b.branchHashes) |-> reverse(b.branchHashes[j])])
  \o writeInt32LE(b.branchSideMask)

AuxPowToBuffer(a) ==
  IF a.kind # "auxpow" THEN <<>>
  ELSE AuxPowTxnToBuffer(a.coinbaseTxn) \o a.blockHash
       \o AuxPowBranchToBuffer(a.coinbaseBranch)
       \o AuxPowBranchToBuffer(a.blockchainBranch)
       \o writeFixedFields(a.parentBlock)

\* this.auxpow.toBufferWriter(bw), after the six writes
writeAuxPow(fixed, a) ==
  IF a.kind = "undefined" THEN [err |-> "TypeError", buf |-> fixed]
  ELSE [err |-> "none", buf |-> fixed \o AuxPowToBuffer(a)]

\* toBufferWriter without its last statement
toBufferWriterFixed(h, includeAuxPow) == [err |-> "none", buf |-> writeFixedFields(h)]

toBufferWriter(h, includeAuxPow) ==
  IF includeAuxPow /\ isAuxPow(h) THEN writeAuxPow(writeFixedFields(h), auxpow(h))
  ELSE [err |-> "none", buf |-> writeFixedFields(h)]

toBuffer(h, includeAuxPow) == toBufferWriter(h, includeAuxPow)

HashOfBuffer(b) ==
  IF b.err # "none" THEN [err |-> b.err, val |-> <<>>]
  ELSE [err |-> "none", val |-> sha256sha256(b.buf)]

\* _getHash hashing toBuffer() with its default argument
getHashWithAuxPow(h) == HashOfBuffer(toBufferWriter(h, TRUE))

\* _getHash: Hash.sha256sha256(this.toBuffer(false))
getHash(h) == HashOfBuffer(toBuffer(h, FALSE))

\* this._id = BufferReader(hash).readReverse().toString('hex')
CacheId(h, d) ==
  IF d.err # "none" THEN [err |-> d.err, val |-> <<>>, obj |-> h]
  ELSE [err |-> "none", val |-> toHex(reverse(d.val)),
        obj |-> [h EXCEPT !._id = toHex(reverse(d.val))]]

\* the id/hash getter: the value returned and the object with its cache
idProperty(h) ==
  IF h._id = <<>> THEN CacheId(h, getHash(h))
  ELSE [err |-> "none", val |-> h._id, obj |-> h]

ObjectOf(h, id) ==
  [err |-> id.err,
   obj |-> id.obj,
   val |-> [hash |-> id.val,
            version |-> h.version,
            prevHash |-> [type |-> "string", val |-> toHex(reverse(h.prevHash))],
            merkleRoot |-> [type |-> "string", val |-> toHex(reverse(h.merkleRoot))],
            time |-> h.time,
            bits |-> h.bits,
            nonce |-> h.nonce,
            auxpow |-> Undefined]]

\* toObject / toJSON (the hash getter fills the cache)
toObject(h) == ObjectOf(h, idProperty(h))

\* ------------------------------------------------------------------------
\* Reading with a BufferReader.  A reader br is [buf, pos, err, iters] plus
\* the local variables of the function that reads; a read that throws sets
\* err and every later step leaves the reader as it is.  iters counts the
\* loop iterations started.
\* ------------------------------------------------------------------------
BufferReader(buf, pos) == [buf |-> buf, pos |-> pos, err |-> "none", iters |-> 0]

\* const key = <read>
Local(br, key, r) ==
  IF br.err # "none" THEN br
  ELSE IF r.err # "none" THEN [br EXCEPT !.err = r.err]
  ELSE (key :> r.val) @@ [br EXCEPT !.pos = r.pos]

\* const key = v
Set(br, key, v) == IF br.err # "none" THEN br ELSE (key :> v) @@ br

\* list.push(<the value just returned>)
Push(br, list) ==
  IF br.err # "none" THEN br ELSE [br EXCEPT ![list] = Append(@, br.ret)]

\* const key = <the value just returned>
Keep(br, key) == IF br.err # "none" THEN br ELSE (key :> br.ret) @@ br

\* one more loop iteration starts
Iter(br) == IF br.err # "none" THEN br ELSE [br EXCEPT !.iters = @ + 1]

Rd(br, key, len) == Local(br, key, read(br.buf, br.pos, len))

RdReverse(br, key, len) == Local(br, key, readReverse(br.buf, br.pos, len))

RdInt32LE(br, key) == Local(br, key, readInt32LE(br.buf, br.pos))

RdUInt32LE(br, key) == Local(br, key, readUInt32LE(br.buf, br.pos))

RdVarintNum(br, key) == Local(br, key, readVarintNum(br.buf, br.pos))

\* ------------------------------------------------------------------------
\* _parseAuxPoW: the coinbase transaction and the Merkle branches
\* ------------------------------------------------------------------------
\* getTxIn
TxInObject(br) ==
  Set(br, "ret", [prevOutput |-> [hash |-> br.hash, index |-> br.index],
                  scriptLen |-> br.scriptLen,
                  script |-> br.script,
                  sequence |-> br.sequence])

RdScript(br) == Local(br, "script", read(br.buf, br.pos, br.scriptLen))

getTxIn(br) ==
  TxInObject(RdUInt32LE(RdScript(RdVarintNum(
    Rd(Rd(br, "hash", HASH_SIZE), "index", 4), "scriptLen")), "sequence"))

\* for (let i = 0; i < txInCount; i++) txIn.push(getTxIn())
RECURSIVE txInLoop(_, _)
txInLoop(br, i) ==
  IF br.err # "none" \/ i >= br.txInCount THEN br
  ELSE txInLoop(Push(getTxIn(Iter(br)), "txIn"), i + 1)

\* getTxOut (the Script wraps the bytes it is given)
TxOutObject(br) ==
  Set(br, "ret", [value |-> br.value,
                  scriptLen |-> br.pkScriptLen,
                  script |-> br.pkScript])

RdPkScript(br) == Local(br, "pkScript", read(br.buf, br.pos, br.pkScriptLen))

getTxOut(br) ==
  TxOutObject(RdPkScript(RdVarintNum(Rd(br, "value", 8), "pkScriptLen")))

\* for (let i = 0; i < txOutCount; i++) txOut.push(getTxOut())
RECURSIVE txOutLoop(_, _)
txOutLoop(br, i) ==
  IF br.err # "none" \/ i >= br.txOutCount THEN br
  ELSE txOutLoop(Push(getTxOut(Iter(br)), "txOut"), i + 1)

RdComponent(br) == Local(br, "ret", read(br.buf, br.pos, br.componentLen))

\* for (let j = 0; j < componentCnt; j++) txWitnesses.push(br.read(componentLen))
RECURSIVE componentLoop(_, _)
componentLoop(br, j) ==
  IF br.err # "none" \/ j >= br.componentCnt THEN br
  ELSE componentLoop(
         Push(RdComponent(RdVarintNum(Iter(br), "componentLen")), "txWitnesses"),
         j + 1)

\* for (let i = 0; i < txInCount; i++) { componentCnt; <component loop> }:
\* every component of every input goes onto the one list txWitnesses
RECURSIVE txWitnessesLoop(_, _)
txWitnessesLoop(br, i) ==
  IF br.err # "none" \/ i >= br.txInCount THEN br
  ELSE txWitnessesLoop(componentLoop(RdVarintNum(Iter(br), "componentCnt"), 0), i + 1)

\* if (br.buf.readUInt16BE(br.pos) === 1) flag = br.readUInt16BE()
PeekFlag(br, peek) ==
  IF peek.err # "none" THEN [br EXCEPT !.err = peek.err]
  ELSE IF peek.val = 1 THEN Local(br, "flag", peek)
  ELSE Set(br, "flag", 0)

RdFlag(br) ==
  IF br.err # "none" THEN br ELSE PeekFlag(br, readUInt16BE(br.buf, br.pos))

RdTxIn(br) == txInLoop(Set(RdVarintNum(br, "txInCount"), "txIn", <<>>), 0)

RdTxOut(br) == txOutLoop(Set(RdVarintNum(br, "txOutCount"), "txOut", <<>>), 0)

\* if (flag) <witness loop>
WitnessesIfFlag(br) ==
  IF br.err # "none" \/ br.flag = 0 THEN br ELSE txWitnessesLoop(br, 0)

RdTxWitnesses(br) == WitnessesIfFlag(Set(br, "txWitnesses", <<>>))

TxnObject(br) ==
  Set(br, "ret", [version |-> br.version,
                  flag |-> br.flag,
                  txInCount |-> br.txInCount,
                  txIn |-> br.txIn,
                  txOutCount |-> br.txOutCount,
                  txOut |-> br.txOut,
                  txWitnesses |-> br.txWitnesses,
                  lockTime |-> br.lockTime])

\* getTxn
getTxn(br) ==
  TxnObject(RdUInt32LE(RdTxWitnesses(RdTxOut(RdTxIn(RdFlag(
    RdInt32LE(br, "version"))))), "lockTime"))

\* the branch loop taking what a slice of the buffer gives, without a throw
RdReverseSlice(br, key, len) ==
  Local(br, key,
        Ok(reverse(SubSeq(br.buf, br.pos + 1,
                          IF br.pos + len > Len(br.buf) THEN Len(br.buf)
                          ELSE br.pos + len)),
           br.pos + len))

RECURSIVE branchLoopSlice(_, _)
branchLoopSlice(br, j) ==
  IF br.err # "none" \/ j >= br.branchLen THEN br
  ELSE branchLoopSlice(Push(RdReverseSlice(Iter(br), "ret", HASH_SIZE), "branchHashes"),
                       j + 1)

\* for (let j = 0; j < branchLen; j++) branchHashes.push(br.readReverse(32))
RECURSIVE branchLoop(_, _)
branchLoop(br, j) ==
  IF br.err # "none" \/ j >= br.branchLen THEN br
  ELSE branchLoop(Push(RdReverse(Iter(br), "ret", HASH_SIZE), "branchHashes"), j + 1)

BranchObject(br) ==
  Set(br, "ret", [branchLen |-> br.branchLen,
                  branchHashes |-> br.branchHashes,
                  branchSideMask |-> br.branchSideMask])

\* merkleBranch
merkleBranch(br) ==
  BranchObject(RdInt32LE(
    branchLoop(Set(RdVarintNum(br, "branchLen"), "branchHashes", <<>>), 0),
    "branchSideMask"))

\* ------------------------------------------------------------------------
\* AuxPow (./auxpow): new AuxPow(info, br)
\* ------------------------------------------------------------------------
\* one component list per input
RECURSIVE AuxPowComponentLoop(_, _)
AuxPowComponentLoop(br, j) ==
  IF br.err # "none" \/ j >= br.componentCnt THEN br
  ELSE AuxPowComponentLoop(
         Push(RdComponent(RdVarintNum(Iter(br), "componentLen")), "stack"), j + 1)

StackObject(br) == Set(br, "ret", br.stack)

AuxPowStack(br) ==
  StackObject(AuxPowComponentLoop(
    Set(RdVarintNum(Iter(br), "componentCnt"), "stack", <<>>), 0))

RECURSIVE AuxPowWitnessLoop(_, _)
AuxPowWitnessLoop(br, i) ==
  IF br.err # "none" \/ i >= br.txInCount THEN br
  ELSE AuxPowWitnessLoop(Push(AuxPowStack(br), "txWitnesses"), i + 1)

AuxPowWitnessesIfFlag(br) ==
  IF br.err # "none" \/ br.flag = 0 THEN br ELSE AuxPowWitnessLoop(br, 0)

AuxPowRdTxWitnesses(br) == AuxPowWitnessesIfFlag(Set(br, "txWitnesses", <<>>))

\* the coinbase transaction, with one witness list per input
AuxPowGetTxn(br) ==
  TxnObject(RdUInt32LE(AuxPowRdTxWitnesses(RdTxOut(RdTxIn(RdFlag(
    RdInt32LE(br, "version"))))), "lockTime"))

\* the header object the constructor builds from info
NewHeader(info) ==
  [version |-> info.version,
   prevHash |-> info.prevHash.val,
   merkleRoot |-> info.merkleRoot.val,
   time |-> info.time,
   timestamp |-> info.time,
   bits |-> info.bits,
   nonce |-> info.nonce,
   _auxpow |-> info.auxpow,
   _id |-> <<>>]

Buffer(bytes) == [type |-> "buffer", val |-> bytes]

String(chars) == [type |-> "string", val |-> chars]

Object(map) == [type |-> "object", val |-> map]

\* the six fixed fields, read in order
RdFixedFields(br) ==
  RdUInt32LE(RdUInt32LE(RdUInt32LE(
    Rd(Rd(RdInt32LE(br, "version"), "prevHash", HASH_SIZE), "merkleRoot", HASH_SIZE),
    "time"), "bits"), "nonce")

\* the info object of _fromBufferReader, before its auxpow is set
InfoOf(br) ==
  [hash |-> <<>>,
   version |-> br.version,
   prevHash |-> Buffer(br.prevHash),
   merkleRoot |-> Buffer(br.merkleRoot),
   time |-> br.time,
   bits |-> br.bits,
   nonce |-> br.nonce,
   auxpow |-> EmptyAuxPow]

InfoObject(br) == Set(br, "info", InfoOf(br))

\* the nested parent header: fixed fields only, AuxPoW decoding suppressed
ParentObject(br) == Set(br, "ret", NewHeader(InfoOf(br)))

AuxPowParent(br) == ParentObject(RdFixedFields(br))

AuxPowObject(br) ==
  Set(br, "ret", [kind |-> "auxpow",
                  coinbaseTxn |-> br.coinbaseTxn,
                  blockHash |-> br.blockHash,
                  coinbaseBranch |-> br.coinbaseBranch,
                  blockchainBranch |-> br.blockchainBranch,
                  parentBlock |-> br.parentBlock])

AuxPowDecode(br) ==
  AuxPowObject(Keep(AuxPowParent(
    Keep(merkleBranch(
      Keep(merkleBranch(
        Rd(Keep(AuxPowGetTxn(br), "coinbaseTxn"), "blockHash", HASH_SIZE)),
        "coinbaseBranch")),
      "blockchainBranch")),
    "parentBlock"))

\* new AuxPow(info, br): decodes only when info.version has the AuxPoW bit
AuxPow(info, br) ==
  IF br.err # "none" THEN br
  ELSE IF (info.version % (2 * AUXPOW_BIT)) \div AUXPOW_BIT = 0
  THEN Set(br, "ret", EmptyAuxPow)
  ELSE AuxPowDecode(br)

\* ------------------------------------------------------------------------
\* BlockHeader: construction
\* ------------------------------------------------------------------------
\* info.auxpow = new AuxPow(info, br); return info
InfoWithAuxPow(br) == Set(br, "ret", [br.info EXCEPT !.auxpow = br.auxpow])

RdAuxPow(br) == Keep(AuxPow(br.info, br), "auxpow")

\* _fromBufferReader
fromBufferReader(br) == InfoWithAuxPow(RdAuxPow(InfoObject(RdFixedFields(br))))

\* what a call that can throw hands back: the error, or the value
Returned(br) ==
  IF br.err # "none" THEN [err |-> br.err, val |-> Undefined]
  ELSE [err |-> "none", val |-> br.ret]

\* _fromObject without BufferUtil.reverse
fromObjectInfoAsIs(data) ==
  [hash |-> data.hash,
   version |-> data.version,
   prevHash |-> IF data.prevHash.type = "string"
                THEN Buffer(fromHex(data.prevHash.val))
                ELSE data.prevHash,
   merkleRoot |-> IF data.merkleRoot.type = "string"
                  THEN Buffer(fromHex(data.merkleRoot.val))
                  ELSE data.merkleRoot,
   time |-> data.time,
   bits |-> data.bits,
   nonce |-> data.nonce,
   auxpow |-> data.auxpow]

\* _fromObject
fromObjectInfo(data) ==
  [hash |-> data.hash,
   version |-> data.version,
   prevHash |-> IF data.prevHash.type = "string"
                THEN Buffer(reverse(fromHex(data.prevHash.val)))
                ELSE data.prevHash,
   merkleRoot |-> IF data.merkleRoot.type = "string"
                  THEN Buffer(reverse(fromHex(data.merkleRoot.val)))
                  ELSE data.merkleRoot,
   time |-> data.time,
   bits |-> data.bits,
   nonce |-> data.nonce,
   auxpow |-> data.auxpow]

\* _from
from(arg) ==
  IF arg.type = "buffer" THEN Returned(fromBufferReader(BufferReader(arg.val, 0)))
  ELSE IF arg.type = "object" THEN [err |-> "none", val |-> fromObjectInfo(arg.val)]
  ELSE [err |-> "TypeError", val |-> Undefined]

\* $.checkState(this.hash === info.hash, ...)
checkState(id, hash) ==
  IF id.err # "none" THEN [err |-> id.err, obj |-> Null]
  ELSE IF id.val = hash THEN [err |-> "none", obj |-> id.obj]
  ELSE [err |-> "InvalidState", obj |-> Null]

\* the constructor without its check of info.hash
CheckHashSkipped(this, hash) == [err |-> "none", obj |-> this]

\* if (info.hash) $.checkState(...): the empty string is falsy, as undefined
CheckHash(this, hash) ==
  IF hash # <<>> THEN checkState(idProperty(this), hash)
  ELSE [err |-> "none", obj |-> this]

Construct(r) ==
  IF r.err # "none" THEN [err |-> r.err, obj |-> Null]
  ELSE CheckHash(NewHeader(r.val), r.val.hash)

\* the constructor: the object built, or the error thrown
BlockHeader(arg) == Construct(from(arg))

\* BlockHeader.fromObject
fromObject(obj) == BlockHeader(Object(fromObjectInfo(obj)))

InfoArg(r) == IF r.err # "none" THEN r ELSE [err |-> "none", val |-> Object(r.val)]

ConstructFromInfo(r) ==
  IF r.err # "none" THEN [err |-> r.err, obj |-> Null] ELSE BlockHeader(r.val)

\* BlockHeader.fromBuffer
fromBuffer(buf) ==
  ConstructFromInfo(InfoArg(Returned(fromBufferReader(BufferReader(buf, 0)))))

\* ------------------------------------------------------------------------
\* _parseAuxPoW(br)
\* ------------------------------------------------------------------------
\* new BlockHeader(br.read(80))
ParentOf(br, r) ==
  IF r.err # "none" THEN [br EXCEPT !.err = r.err] ELSE Set(br, "parentBlock", r.obj)

NewParentBlock(br) ==
  IF br.err # "none" THEN br ELSE ParentOf(br, BlockHeader(Buffer(br.parentBytes)))

\* this.auxpow = {...}: auxpow is an accessor with a getter only and the
\* file is in strict mode, so the assignment throws once the object literal
\* has been evaluated
AssignAuxpow(br) ==
  IF br.err # "none" THEN br
  ELSE [Set(br, "assigned", [coinbaseTxn |-> br.coinbaseTxn,
                             blockHash |-> br.blockHash,
                             coinbaseBranch |-> br.coinbaseBranch,
                             blockchainBranch |-> br.blockchainBranch,
                             parentBlock |-> br.parentBlock])
         EXCEPT !.err = "TypeError"]

parseAuxPoW(br) ==
  AssignAuxpow(NewParentBlock(Rd(
    Keep(merkleBranch(
      Keep(merkleBranch(
        Rd(Keep(getTxn(br), "coinbaseTxn"), "blockHash", HASH_SIZE)),
        "coinbaseBranch")),
      "blockchainBranch"),
    "parentBytes", HEADER_SIZE)))

\* ------------------------------------------------------------------------
\* Difficulty target and proof of work
\* ------------------------------------------------------------------------
\* while (--mov > 0): one round fewer
RECURSIVE movLoopShort(_, _)
movLoopShort(target, mov) ==
  IF mov >= 10 /\ Len(target) >= 0
  THEN movLoopShort(
         BNMul2(BNMul2(BNMul2(BNMul2(BNMul2(BNMul2(BNMul2(BNMul2(target)))))))),
         mov - 8)
  ELSE IF mov > 1 THEN movLoopShort(BNMul2(target), mov - 1)
  ELSE target

\* while (mov-- > 0) target = target.mul(new BN(2)), eight rounds of the
\* loop at a time while eight are left (Len(target) >= 0 is true of every
\* target: it has the target computed before the next rounds start)
RECURSIVE movLoop(_, _)
movLoop(target, mov) ==
  IF mov >= 8 /\ Len(target) >= 0
  THEN movLoop(BNMul2(BNMul2(BNMul2(BNMul2(BNMul2(BNMul2(BNMul2(BNMul2(target)))))))),
               mov - 8)
  ELSE IF mov > 0 THEN movLoop(BNMul2(target), mov - 1)
  ELSE target

\* new BN(bits & 0xffffff) shifted by mov = 8 * ((bits >>> 24) - 3)
TargetOf(bits) ==
  movLoop(BNFromNumber(bits % 16777216), 8 * ((bits \div 16777216) - 3))

\* getTargetDifficulty(bits): bits = bits || this.bits, so an argument of 0
\* is the same as no argument
getTargetDifficulty(h, bits) == TargetOf(IF bits # 0 THEN bits ELSE h.bits)

\* this.auxpow.parentBlock.toBuffer()
ParentBuffer(a) ==
  IF a.kind # "auxpow" THEN [err |-> "TypeError", buf |-> <<>>]
  ELSE toBuffer(a.parentBlock, TRUE)

\* the buffer given to Hash.scrypt
HashBuf(h) == IF isAuxPow(h) THEN ParentBuffer(auxpow(h)) ELSE toBuffer(h, TRUE)

PowTest(h, hashBuf) ==
  IF hashBuf.err # "none" THEN [err |-> hashBuf.err, val |-> FALSE, hashBuf |-> <<>>]
  ELSE [err |-> "none",
        val |-> ~(BNCmp(BNFromBuffer(scrypt(hashBuf.buf)),
                        getTargetDifficulty(h, 0)) > 0),
        hashBuf |-> hashBuf.buf]

\* validProofOfWork: the value returned and the buffer given to Hash.scrypt
validProofOfWork(h) == PowTest(h, HashBuf(h))

\* ------------------------------------------------------------------------
\* Inputs
\* ------------------------------------------------------------------------
\* bytes below 128, so that any four of them read as a 32-bit number that
\* TLC's integers hold
Pattern(k) == AsSeq([i \in 1..HASH_SIZE |-> (k * i + k) % 128])

\* 0x00000001, 0x00000101, 0x80000101
VersionInputs == {1, 257, -2147483391}

BitsInputs == {GENESIS_BITS, REGTEST_BITS}

FixedInputs ==
  {[version |-> v, prevHash |-> Pattern(1), merkleRoot |-> Pattern(7),
    time |-> 1386325540, bits |-> b, nonce |-> 99] :
     v \in VersionInputs, b \in BitsInputs}

ParentBytes(v) ==
  writeFixedFields([version |-> v, prevHash |-> Pattern(11), merkleRoot |-> Pattern(13),
                    time |-> 1386325000, bits |-> REGTEST_BITS, nonce |-> 5])

TxInBytes(k, script) ==
  Pattern(k) \o <<127, 127, 127, 127>> \o <<Len(script)>> \o script
  \o <<126, 127, 127, 127>>

TxOutBytes(script) == <<0, 100, 11, 84, 2, 0, 0, 0>> \o <<Len(script)>> \o script

\* version 1, no witness flag, one input, one output; branches of 0 hashes
\* and 1 hash; the parent's version is 1
WireA ==
  <<1, 0, 0, 0>> \o <<1>> \o TxInBytes(0, <<3, 81, 82, 83>>)
  \o <<1>> \o TxOutBytes(<<118, 169>>) \o <<0, 0, 0, 0>>
  \o Pattern(5)
  \o <<0>> \o <<0, 0, 0, 0>>
  \o <<1>> \o Pattern(9) \o <<1, 0, 0, 0>>
  \o ParentBytes(1)

\* version 2, witness flag, two inputs with the witness components w1, w2,
\* one output; branches of 1 hash and 0 hashes; the parent's version is v
WireWitness(w1, w2, v) ==
  <<2, 0, 0, 0>> \o <<0, 1>> \o <<2>> \o TxInBytes(0, <<>>) \o TxInBytes(2, <<81>>)
  \o <<1>> \o TxOutBytes(<<>>) \o w1 \o w2 \o <<7, 0, 0, 0>>
  \o Pattern(5)
  \o <<1>> \o Pattern(9) \o <<127, 127, 127, 127>>
  \o <<0>> \o <<0, 0, 0, 0>>
  \o ParentBytes(v)

WireB == WireWitness(<<1, 2, 42, 43>>, <<0>>, 257)

PayloadInputs == {WireA, WireB}

BufferInputs ==
  {writeFixedFields(f) \o w : f \in {g \in FixedInputs : isAuxPow(g)}, w \in PayloadInputs}
  \cup {writeFixedFields(f) : f \in {g \in FixedInputs : ~isAuxPow(g)}}
  \cup {SubSeq(writeFixedFields(f), 1, HEADER_SIZE - 1) : f \in FixedInputs}

\* the hash of the header with the fixed fields f, as hex digits
HashOfFixed(f) == toHex(reverse(sha256sha256(writeFixedFields(f))))

ParentInfo(v, a) ==
  Object([hash |-> <<>>, version |-> v,
          prevHash |-> Buffer(Pattern(11)), merkleRoot |-> Buffer(Pattern(13)),
          time |-> 1386325000, bits |-> REGTEST_BITS, nonce |-> 5, auxpow |-> a])

DecodedA == AuxPowDecode(BufferReader(WireA, 0)).ret

\* headers built from a field map, used as the parentBlock of a supplied
\* payload: without the AuxPoW bit, with it and no payload, with it and a
\* payload
ParentInputs ==
  {BlockHeader(ParentInfo(1, Undefined)).obj,
   BlockHeader(ParentInfo(257, Undefined)).obj,
   BlockHeader(ParentInfo(257, DecodedA)).obj}

\* the payloads a caller supplies in a field map
SuppliedAuxPow == {[DecodedA EXCEPT !.parentBlock = p] : p \in ParentInputs}

ObjectInput(f, h, ph, a) ==
  [hash |-> h, version |-> f.version,
   prevHash |-> ph, merkleRoot |-> String(toHex(reverse(f.merkleRoot))),
   time |-> f.time, bits |-> f.bits, nonce |-> f.nonce, auxpow |-> a]

\* field maps: without a hash, with the right one and with a wrong one (the
\* digest's digits in the other order); hashes as hex digits or as bytes; with
\* and without a payload
ObjectInputsOf(f) ==
  {ObjectInput(f, h, String(toHex(reverse(f.prevHash))), Undefined) :
     h \in {<<>>, HashOfFixed(f), toHex(sha256sha256(writeFixedFields(f)))}}
  \cup {ObjectInput(f, <<>>, Buffer(f.prevHash), Undefined)}
  \cup {ObjectInput(f, <<>>, String(toHex(reverse(f.prevHash))), a) :
          a \in IF f.bits = REGTEST_BITS THEN SuppliedAuxPow ELSE {}}

ObjectInputs == UNION {ObjectInputsOf(f) : f \in FixedInputs}

\* the constructor calls of the program, each with what it yields
NewBufferCalls ==
  {[arg |-> Buffer(buf), r |-> BlockHeader(Buffer(buf))] : buf \in BufferInputs}

NewObjectCalls ==
  {[arg |-> Object(obj), r |-> BlockHeader(Object(obj))] : obj \in ObjectInputs}

FromObjectCalls ==
  {[arg |-> Object(obj), r |-> fromObject(obj)] : obj \in ObjectInputs}

FromBufferCalls ==
  {[arg |-> Buffer(buf), r |-> fromBuffer(buf)] : buf \in BufferInputs}

\* the header getTargetDifficulty is called on
TargetHeaders == {BlockHeader(ParentInfo(1, Undefined)).obj}

MantissaInputs == {0, 1, 65535, 8388607}

TargetBitsInputs == {e * 16777216 + m : e \in 0..MaxExponent, m \in MantissaInputs}

\* a payload whose first branch announces n hashes and has k bytes left
WireShort(n, k) ==
  <<1, 0, 0, 0>> \o <<0>> \o <<0>> \o <<0, 0, 0, 0>> \o Pattern(5)
  \o <<n>> \o SubSeq(Pattern(9), 1, k)

\* buf with the byte at index at (from 1) replaced by n
Announce(buf, at, n) == [buf EXCEPT ![at] = n]

\* the count and length bytes of WireA: txInCount, scriptLen, txOutCount,
\* pkScriptLen, branchLen, branchLen
CountsOfWireA == {5, 42, 51, 60, 99, 104}

WellFormedInputs ==
  {WireA,
   WireWitness(<<1, 2, 42, 43>>, <<0>>, 1),
   WireWitness(<<0>>, <<1, 2, 42, 43>>, 1),
   WireWitness(<<2, 1, 42, 1, 43>>, <<0>>, 1),
   WireWitness(<<0>>, <<0>>, 1)}

OverAnnouncingInputs ==
  {Announce(WireA, at, 60) : at \in CountsOfWireA}
  \cup {WireShort(60, 10), WireWitness(<<60, 1, 5>>, <<>>, 1)}
  \cup {SubSeq(WireA, 1, Len(WireA) - c * (HEADER_SIZE \div 2)) : c \in 1..MaxCut}

\* what a call of _parseAuxPoW leaves: the error thrown, the object the
\* last statement built, the reader's position, the loop iterations started
Outcome(br) ==
  [err |-> br.err,
   val |-> IF "assigned" \in DOMAIN br THEN br.assigned ELSE Undefined,
   pos |-> br.pos,
   iters |-> br.iters]

ParseCalls ==
  {[kind |-> "wellformed", buf |-> b, r |-> Outcome(parseAuxPoW(BufferReader(b, 0)))] :
     b \in WellFormedInputs}
  \cup {[kind |-> "over", buf |-> b, r |-> Outcome(parseAuxPoW(BufferReader(b, 0)))] :
          b \in OverAnnouncingInputs}
  \cup {[kind |-> "parent", buf |-> b, r |-> Outcome(parseAuxPoW(BufferReader(b, 0)))] :
          b \in {WireB}}

\* ------------------------------------------------------------------------
\* A program holding one BlockHeader: hdr is the header (Null before the
\* first construction), route the way it was built, ret the last call with
\* what it was given and what it returned.  tgt holds the last two calls of
\* getTargetDifficulty, parsed the last two calls of _parseAuxPoW.
\* ------------------------------------------------------------------------
VARIABLES hdr, route, ret, tgt, parsed

vars == <<hdr, route, ret, tgt, parsed>>

NoCall == [op |-> "none", err |-> "none", via |-> "none"]

Init ==
  /\ hdr = Null
  /\ route = "none"
  /\ ret = NoCall
  /\ tgt = [prev |-> NoCall, cur |-> NoCall]
  /\ parsed = [prev |-> NoCall, cur |-> NoCall]

\* hdr = <constructor call>: the variable is assigned unless the call throws
Assign(r, how, op, arg, via) ==
  /\ hdr' = IF r.err = "none" THEN r.obj ELSE hdr
  /\ route' = IF r.err = "none" THEN how ELSE route
  /\ ret' = [op |-> op, err |-> r.err, arg |-> arg, via |-> via, obj |-> r.obj,
             src |-> IF via = "input" THEN Null ELSE hdr,
             srcRoute |-> IF via = "input" THEN "none" ELSE route]
  /\ UNCHANGED <<tgt, parsed>>

\* hdr = new BlockHeader(buf)
NewFromBuffer == \E c \in NewBufferCalls : Assign(c.r, "buffer", "new", c.arg, "input")

\* hdr = new BlockHeader(obj)
NewFromObject == \E c \in NewObjectCalls : Assign(c.r, "object", "new", c.arg, "input")

\* hdr = new BlockHeader('01')
NewFromOther ==
  Assign(BlockHeader(String(<<"0", "1">>)), "none", "new", String(<<"0", "1">>), "input")

\* hdr = BlockHeader.fromObject(obj)
FromObject ==
  \E c \in FromObjectCalls : Assign(c.r, "object", "fromObject", c.arg, "input")

\* obj = hdr.toObject(); hdr = BlockHeader.fromObject(obj)
FromObjectOfToObject ==
  /\ ret.op = "toObject" /\ ret.err = "none"
  /\ Assign(fromObject(ret.val), "object", "fromObject", Object(ret.val), "toObject")

\* hdr = BlockHeader.fromBuffer(buf)
FromBuffer ==
  \E c \in FromBufferCalls : Assign(c.r, "buffer", "fromBuffer", c.arg, "input")

\* buf = hdr.toBuffer(true); hdr = BlockHeader.fromBuffer(buf)
FromBufferOfToBuffer ==
  /\ ret.op = "toBuffer" /\ ret.err = "none" /\ ret.arg
  /\ Assign(fromBuffer(ret.val), "buffer", "fromBuffer", Buffer(ret.val), "toBuffer")

\* a method call on hdr: r.obj is the header after it
Called(op, r, arg, val) ==
  /\ hdr' = r.obj
  /\ ret' = [op |-> op, err |-> r.err, arg |-> arg, via |-> "none", val |-> val,
             src |-> hdr, srcRoute |-> route]
  /\ UNCHANGED <<route, tgt, parsed>>

\* hdr.hash (or hdr.id)
GetHash ==
  /\ hdr # Null
  /\ Called("hash", idProperty(hdr), Undefined, idProperty(hdr).val)

\* hdr.toObject()
ToObject ==
  /\ hdr # Null
  /\ Called("toObject", toObject(hdr), Undefined, toObject(hdr).val)

WithObj(r, h) == [err |-> r.err, obj |-> h]

\* hdr.toBuffer(includeAuxPow)
ToBuffer ==
  /\ hdr # Null
  /\ \E includeAuxPow \in BOOLEAN :
       Called("toBuffer", WithObj(toBuffer(hdr, includeAuxPow), hdr), includeAuxPow,
              toBuffer(hdr, includeAuxPow).buf)

\* hdr.validProofOfWork()
ValidProofOfWork ==
  /\ hdr # Null
  /\ Called("validProofOfWork", WithObj(validProofOfWork(hdr), hdr), Undefined,
            [val |-> validProofOfWork(hdr).val,
             hashBuf |-> validProofOfWork(hdr).hashBuf])

Next ==
  \/ NewFromBuffer
  \/ NewFromObject
  \/ NewFromOther
  \/ FromObject
  \/ FromObjectOfToObject
  \/ FromBuffer
  \/ FromBufferOfToBuffer
  \/ GetHash
  \/ ToObject
  \/ ToBuffer
  \/ ValidProofOfWork

Spec == Init /\ [][Next]_vars

\* h.getTargetDifficulty(bits)
GetTargetDifficulty ==
  /\ \E h \in TargetHeaders, bits \in TargetBitsInputs :
       tgt' = [prev |-> tgt.cur,
               cur |-> [op |-> "getTargetDifficulty", bits |-> bits,
                        thisBits |-> h.bits,
                        target |-> getTargetDifficulty(h, bits)]]
  /\ UNCHANGED <<hdr, route, ret, parsed>>

NextTarget == GetTargetDifficulty

SpecTarget == Init /\ [][NextTarget]_vars

\* h._parseAuxPoW(br), br a reader at the start of a payload
ParseAuxPoW ==
  /\ \E c \in ParseCalls :
       parsed' = [prev |-> parsed.cur,
                  cur |-> [op |-> "parseAuxPoW", kind |-> c.kind, buf |-> c.buf,
                           err |-> c.r.err, val |-> c.r.val, pos |-> c.r.pos,
                           iters |-> c.r.iters]]
  /\ UNCHANGED <<hdr, route, ret, tgt>>

NextAux == ParseAuxPoW

SpecAux == Init /\ [][NextAux]_vars

\* ------------------------------------------------------------------------
\* Properties
\* ------------------------------------------------------------------------
SameFixed(a, b) ==
  /\ a.version = b.version
  /\ a.prevHash = b.prevHash
  /\ a.merkleRoot = b.merkleRoot
  /\ a.time = b.time
  /\ a.bits = b.bits
  /\ a.nonce = b.nonce

\* the headers the constructor calls build
Built ==
  {c.r.obj : c \in {d \in NewBufferCalls \cup NewObjectCalls : d.r.err = "none"}}

\* C1: the hash getter of a header returns, on the first access and on every
\* later one, the string that the getter of any other header with the same
\* fixed fields returns, whatever the AuxPoW payloads of the two are.
HashIgnoresAuxPow ==
  ret.op = "hash" =>
    /\ ret.err = "none"
    /\ hdr._id = ret.val
    /\ \A h \in Built : SameFixed(h, hdr) => idProperty(h).val = ret.val

\* a header with a payload has returned its hash, and there are a header
\* with another payload and one without any that have its fixed fields
HashIgnoresAuxPowWitness ==
  /\ ret.op = "hash" /\ ret.err = "none"
  /\ isAuxPow(hdr) /\ hdr._auxpow.kind = "auxpow"
  /\ ret.src._id # <<>>
  /\ \E h \in Built : SameFixed(h, hdr) /\ h._auxpow.kind = "auxpow"
                      /\ h._auxpow # hdr._auxpow
  /\ \E h \in Built : SameFixed(h, hdr) /\ h._auxpow = Undefined

\* C2: a header decoded from bytes, encoded with toBuffer(true) and decoded
\* again, comes back with the same six fixed fields and the same AuxPoW
\* payload.
DecodeOfEncode ==
  (ret.op = "fromBuffer" /\ ret.via = "toBuffer" /\ ret.srcRoute = "buffer") =>
    /\ ret.err = "none"
    /\ SameFixed(hdr, ret.src)
    /\ hdr._auxpow = ret.src._auxpow

\* a header with a payload that has witness data went round
DecodeOfEncodeWitness ==
  /\ ret.op = "fromBuffer" /\ ret.via = "toBuffer" /\ ret.srcRoute = "buffer"
  /\ ret.err = "none"
  /\ isAuxPow(ret.src)
  /\ ret.src._auxpow.kind = "auxpow"
  /\ ret.src._auxpow.coinbaseTxn.flag = 1
  /\ Len(ret.arg.val) > HEADER_SIZE

\* C3: in every header built, the auxpow property holds a payload exactly
\* when the version has bit 0x100 set.
AuxPowIffFlag ==
  hdr # Null => (isAuxPow(hdr) <=> auxpow(hdr).kind = "auxpow")

\* the bytes of a hash field of a field map, in internal order
InternalOrder(field) ==
  IF field.type = "string" THEN reverse(fromHex(field.val)) ELSE field.val

\* the hash of the fixed fields of a field map
HashOfMap(map) ==
  HashOfFixed([version |-> map.version,
               prevHash |-> InternalOrder(map.prevHash),
               merkleRoot |-> InternalOrder(map.merkleRoot),
               time |-> map.time, bits |-> map.bits, nonce |-> map.nonce])

PowNeverThrows ==
  ret.op = "validProofOfWork" => ret.err = "none" /\ ret.val.val \in BOOLEAN

\* C6: a call of validProofOfWork that returns has given Hash.scrypt 80
\* bytes, the fixed fields of the payload's parent header when the header has
\* the AuxPoW bit and those of the header itself when not; it returns whether
\* the digest is at most the target, and it leaves the header as it was.
PowInput ==
  (ret.op = "validProofOfWork"
   /\ ret.err = "none") =>
    /\ ret.val.hashBuf =
         writeFixedFields(IF isAuxPow(ret.src) THEN ret.src._auxpow.parentBlock
                          ELSE ret.src)
    /\ Len(ret.val.hashBuf) = HEADER_SIZE
    /\ ret.val.val = (BNCmp(BNFromBuffer(scrypt(ret.val.hashBuf)),
                            TargetOf(ret.src.bits)) <= 0)
    /\ hdr = ret.src

\* C8: for a header h without the AuxPoW bit, fromObject(h.toObject())
\* returns a header with h's version, prevHash, merkleRoot, time, bits, nonce
\* and hash; the map holds the two hashes byte-reversed, as hex digits.
ObjectOfHeader ==
  (ret.op = "fromObject" /\ ret.via = "toObject" /\ ~isAuxPow(ret.src)) =>
    /\ ret.err = "none"
    /\ SameFixed(hdr, ret.src)
    /\ hdr._id = ret.src._id
    /\ ret.arg.val.prevHash = String(toHex(reverse(ret.src.prevHash)))
    /\ ret.arg.val.merkleRoot = String(toHex(reverse(ret.src.merkleRoot)))

\* a header without the AuxPoW bit went round
ObjectOfHeaderWitness ==
  /\ ret.op = "fromObject" /\ ret.via = "toObject" /\ ~isAuxPow(ret.src)
  /\ ret.err = "none"
  /\ hdr._id = HashOfFixed(ret.src)
  /\ ret.src.prevHash # reverse(ret.src.prevHash)

Exponent(bits) == bits \div 16777216

Mantissa(bits) == bits % 16777216

\* 256 times a big number
BNMul256(a) == IF Len(a) = 0 THEN a ELSE <<0>> \o a

\* two calls with the same mantissa and exponents one apart
OneApart == 
  /\ tgt.prev.op = "getTargetDifficulty"
  /\ Mantissa(tgt.cur.bits) = Mantissa(tgt.prev.bits)
  /\ Exponent(tgt.cur.bits) = Exponent(tgt.prev.bits) + 1

\* C7, as stated: with the same mantissa and exponents one apart, the target
\* of the larger exponent is 256 times that of the smaller, for every
\* exponent.
TargetTimes256 == OneApart => tgt.cur.target = BNMul256(tgt.prev.target)

\* C7, amended: that holds when the smaller exponent is at least 3; when it
\* is below 3 and the smaller bits value is not 0, both targets are the
\* mantissa itself.
TargetTimes256From3 ==
  OneApart =>
    /\ Exponent(tgt.prev.bits) >= 3 => tgt.cur.target = BNMul256(tgt.prev.target)
    /\ (Exponent(tgt.prev.bits) < 3 /\ tgt.prev.bits # 0) =>
         /\ tgt.prev.target = BNFromNumber(Mantissa(tgt.prev.bits))
         /\ tgt.cur.target = tgt.prev.target

\* exponents 4 and 5 with a mantissa that fills its three bytes
TargetTimes256From3Witness ==
  /\ OneApart
  /\ Exponent(tgt.prev.bits) = 4
  /\ Mantissa(tgt.prev.bits) = 8388607
  /\ Len(tgt.cur.target) = 5

\* C9: the value that decoding a well-formed payload produces determines the
\* payload's bytes: two different payloads never decode to the same value.
DecodedValueDeterminesBytes ==
  (parsed.cur.op = "parseAuxPoW" /\ parsed.prev.op = "parseAuxPoW"
   /\ parsed.cur.kind = "wellformed" /\ parsed.prev.kind = "wellformed"
   /\ parsed.cur.buf # parsed.prev.buf) =>
    parsed.cur.val # parsed.prev.val

====
